---------------------------- MODULE Spec2Model ----------------------------
(***************************************************************************)
(* A model of cohost2autost (src/src/command/cohost2autost.rs).            *)
(*                                                                         *)
(* The module holds several state machines over one set of variables; each *)
(* specification starts the machines it does not run in an idle state:     *)
(*   Spec       the run driver `main`: units converted concurrently        *)
(*   SpecUnit   one unit, `convert_chost`, with a longer share tree        *)
(*   SpecMerge  the merge loop of `convert_single_chost`, any span input   *)
(*   SpecBody   the same loop over every block variant, at most one span   *)
(*   SpecDom    the mention pass of `process_chost_fragment` over a tree   *)
(*   SpecCache  two workers resolving attachments through the cache        *)
(*   SpecAbort  one unit whose top-level conversion runs the merge loop    *)
(*   SpecAst    process_ast over an AST, properties in any order           *)
(*   SpecFrag   the attachment pass of `process_chost_fragment`            *)
(***************************************************************************)
EXTENDS Integers, Sequences, FiniteSets, TLC

(* ------------------------------ bounds -------------------------------- *)
\* number of input files (units) of the run driver specification
MaxUnits == 2
\* share-tree length of a unit of the run driver specification
MaxRunShare == 1
\* share-tree length of the single unit of SpecUnit
MaxShare == 2
\* post ids are drawn from 1..MaxId
MaxId == 2
\* number of blocks of a post of SpecMerge; span indices reach one further
MaxBlocks == 3
\* number of spans of a post of SpecMerge
MaxSpans == 2
\* number of blocks of a post of SpecBody
MaxBodyBlocks == 2
\* number of nested blocks of an AttachmentRow
MaxRow == 2
\* number of nodes of a document below its root
MaxNodes == 3
\* number of attachment ids
MaxAttIds == 1
\* number of cache_attachment_image / cache_attachment_thumb calls in a run
MaxResolves == 3
\* number of children of a Root or Element node of an AST
MaxAstKids == 2
\* number of elements of a document of the attachment pass
MaxFragNodes == 2
\* number of write calls write_all needs for a downloaded file
MaxChunks == 2

(* ------------------------------ helpers ------------------------------- *)
SeqsUpTo(S, n) == UNION {[1..k -> S] : k \in 0..n}

Range(s) == {s[k] : k \in DOMAIN s}

Min(S) == CHOOSE x \in S : \A y \in S : x <= y

\* a map with one more (or one replaced) key
Put(f, key, val) == (key :> val) @@ f

(* ------------------------------ state --------------------------------- *)
VARIABLES
    \* run driver and post converter
    dir_entries,              \* the input directory: one post record per file
    specific_post_filenames,  \* the file names given on the command line
    upc,                      \* per unit: position of its closure
    post,                     \* per unit: the parsed post record
    shared_posts,             \* per unit: the share tree moved out of the post
    shared_post_filenames,    \* per unit: the generated file names
    done,                     \* per unit: number of shared posts converted
    calls,                    \* per unit: the convert_single_chost calls made
    out_dirs,                 \* directories created under the output path
    out_files,                \* files under the output path
    run,                      \* what main returned
    \* convert_single_chost
    blocks,                   \* post.blocks
    spans_in,                 \* post.astMap.spans
    spans,                    \* the sorted spans not yet consumed
    m_i,                      \* the index of the next block
    output,                   \* what has been written to the output file
    mpc,                      \* position in convert_single_chost
    visits,                   \* one entry per turn of the loop over the blocks
    \* process_chost_fragment
    dom_in,                   \* the nodes of the document as the pass found them
    dom,                      \* the nodes of the document: id -> node, 0 the root
    queue,                    \* the queue of the mention pass
    dpc,                      \* position in process_chost_fragment
    \* the attachment cache
    remote,                   \* per id: the Location header the service answers with
    cache,                    \* the id directories: <<variant, id>> -> name -> content
    wk,                       \* per worker: the call it is in
    last,                     \* per worker: the call it made before
    started,                  \* number of calls made
    returned,                 \* per id directory: the URLs returned for it
    \* process_ast
    ast_in,                   \* the AST handed to process_ast
    ast_queue,                \* ast_queue: pairs of an AST node and its parent
    html,                     \* the fragment being built: id -> node, 0 the root
    apc,                      \* position in process_ast
    \* process_chost_fragment, the attachment pass
    frag_in,                  \* the elements of the document as the pass found them
    frag,                     \* the elements of the document, in traversal order
    f_i,                      \* number of elements the pass has visited
    attachment_ids,           \* attachment_ids
    cache_calls,              \* the ids context.cache_attachment_image was called with
    fpc                       \* position in the attachment pass

unitVars == <<dir_entries, specific_post_filenames, upc, post, shared_posts,
              shared_post_filenames, done, calls, out_dirs, out_files, run>>

mergeVars == <<blocks, spans_in, spans, m_i, output, mpc, visits>>

domVars == <<dom_in, dom, queue, dpc>>

cacheVars == <<remote, cache, wk, last, started, returned>>

astVars == <<ast_in, ast_queue, html, apc>>

fragVars == <<frag_in, frag, f_i, attachment_ids, cache_calls, fpc>>

vars == <<unitVars, mergeVars, domVars, cacheVars, astVars, fragVars>>

(* ------------------- run driver and post converter -------------------- *)
Units == DOMAIN dir_entries

\* a file name that leaves out the shared post's id
SharedFilenameOfPost(post_id, shared_id) == <<post_id, "/", post_id, ".html">>

\* format!("{}/{}.html", post_id, post.postId)
SharedFilename(post_id, shared_id) == <<post_id, "/", shared_id, ".html">>

\* format!("{post_id}.html")
TopFilename(post_id) == <<post_id, ".html">>

\* the outcomes of one convert_single_chost call: File::create fails, the
\* metadata header is not written, the call fails after the header is in the
\* file (the separator, a span that is no JSON, a block), or it returns Ok
Outcomes == {"ok", "create_err", "header_err", "body_err"}

\* convert_single_chost as the post converter sees it: the file as it is once
\* File::create has made it ("created"), once the header is written
\* ("header"), and once the call has returned Ok ("ok")
FileAfter(step, shared_filenames) ==
    CASE step = "created" -> [meta |-> FALSE, references |-> <<>>, complete |-> FALSE]
      [] step = "header" ->
            [meta |-> TRUE, references |-> shared_filenames, complete |-> FALSE]
      [] OTHER ->
            [meta |-> TRUE, references |-> shared_filenames, complete |-> TRUE]

\* shared_posts.iter().map(|post| format!(...)).collect()
SharedPostFilenames(post_id, tree) ==
    [k \in DOMAIN tree |-> SharedFilename(post_id, tree[k])]

\* a closure that copies the share tree and leaves it on the post record
closure_begin_keep(u) ==
    /\ upc[u] = "queued"
    /\ \E outcome \in {"entry_err", "parse_err", "mkdir_err", "ok"} :
        IF outcome = "entry_err"
        THEN /\ upc' = [upc EXCEPT ![u] = "err"]
             /\ UNCHANGED <<post, shared_posts, shared_post_filenames, out_dirs>>
        ELSE IF specific_post_filenames # {} /\ u \notin specific_post_filenames
        THEN /\ upc' = [upc EXCEPT ![u] = "ok"]
             /\ UNCHANGED <<post, shared_posts, shared_post_filenames, out_dirs>>
        ELSE IF outcome = "parse_err"
        THEN /\ upc' = [upc EXCEPT ![u] = "err"]
             /\ UNCHANGED <<post, shared_posts, shared_post_filenames, out_dirs>>
        ELSE LET parsed == dir_entries[u]
                 tree == parsed.shareTree
             IN /\ post' = [post EXCEPT ![u] = parsed]
                /\ shared_posts' = [shared_posts EXCEPT ![u] = tree]
                /\ shared_post_filenames' =
                     [shared_post_filenames EXCEPT
                        ![u] = SharedPostFilenames(parsed.postId, tree)]
                /\ IF tree = <<>>
                   THEN /\ upc' = [upc EXCEPT ![u] = "converting"]
                        /\ UNCHANGED out_dirs
                   ELSE IF outcome = "mkdir_err"
                   THEN /\ upc' = [upc EXCEPT ![u] = "err"]
                        /\ UNCHANGED out_dirs
                   ELSE /\ upc' = [upc EXCEPT ![u] = "converting"]
                        /\ out_dirs' = out_dirs \cup {parsed.postId}
    /\ UNCHANGED <<dir_entries, specific_post_filenames, done, calls, out_files, run>>
    /\ UNCHANGED <<mergeVars, domVars, cacheVars, astVars, fragVars>>

\* the closure of main up to the first convert_single_chost call
closure_begin(u) ==
    /\ upc[u] = "queued"
    /\ \E outcome \in {"entry_err", "parse_err", "mkdir_err", "ok"} :
        IF outcome = "entry_err"
        THEN /\ upc' = [upc EXCEPT ![u] = "err"]
             /\ UNCHANGED <<post, shared_posts, shared_post_filenames, out_dirs>>
        ELSE IF specific_post_filenames # {} /\ u \notin specific_post_filenames
        THEN /\ upc' = [upc EXCEPT ![u] = "ok"]
             /\ UNCHANGED <<post, shared_posts, shared_post_filenames, out_dirs>>
        ELSE IF outcome = "parse_err"
        THEN /\ upc' = [upc EXCEPT ![u] = "err"]
             /\ UNCHANGED <<post, shared_posts, shared_post_filenames, out_dirs>>
        ELSE LET parsed == dir_entries[u]
                 tree == parsed.shareTree
             IN /\ post' = [post EXCEPT ![u] = [parsed EXCEPT !.shareTree = <<>>]]
                /\ shared_posts' = [shared_posts EXCEPT ![u] = tree]
                /\ shared_post_filenames' =
                     [shared_post_filenames EXCEPT
                        ![u] = SharedPostFilenames(parsed.postId, tree)]
                /\ IF tree = <<>>
                   THEN /\ upc' = [upc EXCEPT ![u] = "converting"]
                        /\ UNCHANGED out_dirs
                   ELSE IF outcome = "mkdir_err"
                   THEN /\ upc' = [upc EXCEPT ![u] = "err"]
                        /\ UNCHANGED out_dirs
                   ELSE /\ upc' = [upc EXCEPT ![u] = "converting"]
                        /\ out_dirs' = out_dirs \cup {parsed.postId}
    /\ UNCHANGED <<dir_entries, specific_post_filenames, done, calls, out_files, run>>
    /\ UNCHANGED <<mergeVars, domVars, cacheVars, astVars, fragVars>>

\* the call returns with this outcome: the `?` of convert_chost on an Err
Returned(u, path, shared_filenames, p, outcome) ==
    Append(calls[u], [path |-> path, references |-> shared_filenames,
                      post |-> p, outcome |-> outcome])

\* let mut output = File::create(output_path)? of a call with these arguments
single_create(u, path, shared_filenames, p, created) ==
    \E ok \in BOOLEAN :
        IF ok
        THEN /\ out_files' = Put(out_files, path, FileAfter("created", <<>>))
             /\ upc' = [upc EXCEPT ![u] = created]
             /\ UNCHANGED calls
        ELSE /\ calls' = [calls EXCEPT ![u] =
                             Returned(u, path, shared_filenames, p, "create_err")]
             /\ upc' = [upc EXCEPT ![u] = "err"]
             /\ UNCHANGED out_files

\* a loop over the shared posts that goes on after a conversion that failed
convert_shared_lenient(u) ==
    /\ upc[u] = "converting"
    /\ done[u] < Len(shared_posts[u])
    /\ \E ok \in BOOLEAN :
        IF ok
        THEN /\ out_files' = Put(out_files, shared_post_filenames[u][done[u] + 1],
                                 FileAfter("created", <<>>))
             /\ upc' = [upc EXCEPT ![u] = "shared_created"]
             /\ UNCHANGED <<calls, done>>
        ELSE /\ calls' = [calls EXCEPT ![u] =
                             Returned(u, shared_post_filenames[u][done[u] + 1], <<>>,
                                      shared_posts[u][done[u] + 1], "create_err")]
             /\ done' = [done EXCEPT ![u] = @ + 1]
             /\ UNCHANGED <<upc, out_files>>
    /\ UNCHANGED <<dir_entries, specific_post_filenames, post, shared_posts,
                   shared_post_filenames, out_dirs, run>>
    /\ UNCHANGED <<mergeVars, domVars, cacheVars, astVars, fragVars>>

\* one turn of the loop over shared_posts.into_iter().zip(shared_post_paths):
\* convert_single_chost(shared_post, vec![], ...) is called and makes its file
convert_shared(u) ==
    /\ upc[u] = "converting"
    /\ done[u] < Len(shared_posts[u])
    /\ single_create(u, shared_post_filenames[u][done[u] + 1], <<>>,
                     shared_posts[u][done[u] + 1], "shared_created")
    /\ UNCHANGED <<dir_entries, specific_post_filenames, post, shared_posts,
                   shared_post_filenames, done, out_dirs, run>>
    /\ UNCHANGED <<mergeVars, domVars, cacheVars, astVars, fragVars>>

\* a unit that skips the loop over the shared posts
SharedLoopSkipped(u) == TRUE

\* the loop over the shared posts has run to its end
SharedLoopDone(u) == done[u] = Len(shared_posts[u])

\* convert_single_chost(post, shared_post_filenames, ...) is called and makes
\* its file
convert_top(u) ==
    /\ upc[u] = "converting"
    /\ SharedLoopDone(u)
    /\ single_create(u, TopFilename(post[u].postId), shared_post_filenames[u],
                     post[u].postId, "top_created")
    /\ UNCHANGED <<dir_entries, specific_post_filenames, post, shared_posts,
                   shared_post_filenames, done, out_dirs, run>>
    /\ UNCHANGED <<mergeVars, domVars, cacheVars, astVars, fragVars>>

\* the call the unit is in is the one on the top-level post
InTop(u) == upc[u] \in {"top_created", "top_header"}

\* the arguments of the call the unit is in
CallPath(u) ==
    IF InTop(u) THEN TopFilename(post[u].postId)
    ELSE shared_post_filenames[u][done[u] + 1]

CallReferences(u) == IF InTop(u) THEN shared_post_filenames[u] ELSE <<>>

CallPost(u) == IF InTop(u) THEN post[u].postId ELSE shared_posts[u][done[u] + 1]

\* output.write_all(meta.render()?.as_bytes())?
single_header(u) ==
    /\ upc[u] \in {"shared_created", "top_created"}
    /\ \E ok \in BOOLEAN :
        IF ok
        THEN /\ out_files' = Put(out_files, CallPath(u),
                                 FileAfter("header", CallReferences(u)))
             /\ upc' = [upc EXCEPT ![u] = IF InTop(u) THEN "top_header"
                                          ELSE "shared_header"]
             /\ UNCHANGED calls
        ELSE /\ calls' = [calls EXCEPT ![u] =
                             Returned(u, CallPath(u), CallReferences(u),
                                      CallPost(u), "header_err")]
             /\ upc' = [upc EXCEPT ![u] = "err"]
             /\ UNCHANGED out_files
    /\ UNCHANGED <<dir_entries, specific_post_filenames, post, shared_posts,
                   shared_post_filenames, done, out_dirs, run>>
    /\ UNCHANGED <<mergeVars, domVars, cacheVars, astVars, fragVars>>

\* the rest of convert_single_chost, from the separator after the header to
\* Ok(()), and what convert_chost does with the result
single_body(u) ==
    /\ upc[u] \in {"shared_header", "top_header"}
    /\ \E ok \in BOOLEAN :
        IF ok
        THEN /\ out_files' = Put(out_files, CallPath(u),
                                 FileAfter("ok", CallReferences(u)))
             /\ calls' = [calls EXCEPT ![u] =
                             Returned(u, CallPath(u), CallReferences(u),
                                      CallPost(u), "ok")]
             /\ IF InTop(u)
                THEN /\ upc' = [upc EXCEPT ![u] = "ok"]
                     /\ UNCHANGED done
                ELSE /\ done' = [done EXCEPT ![u] = @ + 1]
                     /\ upc' = [upc EXCEPT ![u] = "converting"]
        ELSE /\ calls' = [calls EXCEPT ![u] =
                             Returned(u, CallPath(u), CallReferences(u),
                                      CallPost(u), "body_err")]
             /\ upc' = [upc EXCEPT ![u] = "err"]
             /\ UNCHANGED <<out_files, done>>
    /\ UNCHANGED <<dir_entries, specific_post_filenames, post, shared_posts,
                   shared_post_filenames, out_dirs, run>>
    /\ UNCHANGED <<mergeVars, domVars, cacheVars, astVars, fragVars>>

Finished(u) == upc[u] \in {"ok", "err"}

\* a driver that reports the last error instead
LastError(failed) == CHOOSE x \in failed : \A y \in failed : y <= x

\* for result in results { result?; }: the first Err in input order
FirstError(failed) == Min(failed)

\* collect::<Vec<_>>() has every result; then the results are looked through
main_return ==
    /\ run = <<"running">>
    /\ \A u \in Units : Finished(u)
    /\ LET failed == {u \in Units : upc[u] = "err"}
       IN run' = IF failed = {} THEN <<"ok">> ELSE <<"err", FirstError(failed)>>
    /\ UNCHANGED <<dir_entries, specific_post_filenames, upc, post, shared_posts,
                   shared_post_filenames, done, calls, out_dirs, out_files>>
    /\ UNCHANGED <<mergeVars, domVars, cacheVars, astVars, fragVars>>

NoPost == [postId |-> 0, shareTree |-> <<>>]

UnitInit(posts) ==
    /\ dir_entries \in posts
    /\ specific_post_filenames \in SUBSET (DOMAIN dir_entries)
    /\ upc = [u \in DOMAIN dir_entries |-> "queued"]
    /\ post = [u \in DOMAIN dir_entries |-> NoPost]
    /\ shared_posts = [u \in DOMAIN dir_entries |-> <<>>]
    /\ shared_post_filenames = [u \in DOMAIN dir_entries |-> <<>>]
    /\ done = [u \in DOMAIN dir_entries |-> 0]
    /\ calls = [u \in DOMAIN dir_entries |-> <<>>]
    /\ out_dirs = {}
    /\ out_files = <<>>
    /\ run = <<"running">>

\* no run: the state of the driver's variables in the other specifications
UnitIdle ==
    /\ dir_entries = <<>>
    /\ specific_post_filenames = {}
    /\ upc = <<>>
    /\ post = <<>>
    /\ shared_posts = <<>>
    /\ shared_post_filenames = <<>>
    /\ done = <<>>
    /\ calls = <<>>
    /\ out_dirs = {}
    /\ out_files = <<>>
    /\ run = <<"idle">>

\* the run driver's input: MaxUnits files, file u holding post u, with a share
\* tree of up to MaxRunShare posts, its k-th member post k
RunTrees == {[k \in 1..n |-> k] : n \in 0..MaxRunShare}

RunPosts ==
    {d \in [1..MaxUnits -> [postId : 1..MaxUnits, shareTree : RunTrees]] :
        \A u \in 1..MaxUnits : d[u].postId = u}

\* one file, any post id, a share tree of up to MaxShare posts
UnitPosts ==
    [1..1 -> [postId : 1..MaxId, shareTree : SeqsUpTo(1..MaxId, MaxShare)]]

NextRun ==
    \/ \E u \in Units : closure_begin(u)
    \/ \E u \in Units : convert_shared(u)
    \/ \E u \in Units : convert_top(u)
    \/ \E u \in Units : single_header(u)
    \/ \E u \in Units : single_body(u)
    \/ main_return

(* ---------------- convert_single_chost: the merge loop ---------------- *)
\* Block and Attachment values; a field a variant lacks holds "" or <<>>
MarkdownBlock == [kind |-> "Markdown", attachment |-> "", attachments |-> <<>>]

AskBlock == [kind |-> "Ask", attachment |-> "", attachments |-> <<>>]

UnknownBlock == [kind |-> "Unknown", attachment |-> "", attachments |-> <<>>]

AttachmentBlock(a) == [kind |-> "Attachment", attachment |-> a, attachments |-> <<>>]

AttachmentRowBlock(row) ==
    [kind |-> "AttachmentRow", attachment |-> "", attachments |-> row]

NoSpan == [ast |-> 0, start |-> 0, end |-> 0]

\* what the loop writes: a piece of the file and the block index it came from
Written(piece, i, ast) == [piece |-> piece, at |-> i, ast |-> ast]

Separator(i) == Written("\n\n", i, 0)

\* spans.sort_by_key(|(_ast, start, end)| (*start, *end))
KeyLeq(a, b) == a.start < b.start \/ (a.start = b.start /\ a.end <= b.end)

RECURSIVE InsertSorted(_, _)
InsertSorted(sorted, x) ==
    IF sorted = <<>> THEN <<x>>
    ELSE IF KeyLeq(Head(sorted), x)
         THEN <<Head(sorted)>> \o InsertSorted(Tail(sorted), x)
         ELSE <<x>> \o sorted

RECURSIVE SortByKey(_)
SortByKey(s) ==
    IF s = <<>> THEN <<>>
    ELSE InsertSorted(SortByKey(SubSeq(s, 1, Len(s) - 1)), s[Len(s)])

\* a loop test that lets a span through whose end is the index
PassedLate(span, i) == i > span.end

\* a loop test that lets every span through
PassedNever(span, i) == FALSE

\* the test of the while loop: |(_ast, _start, end)| i >= *end
Passed(span, i) == i >= span.end

\* a loop that discards no span
DiscardNone(q, i) == q

\* while spans.first().map_or(false, ...) { spans.remove(0); }
RECURSIVE DiscardPassed(_, _)
DiscardPassed(q, i) ==
    IF q # <<>> /\ Passed(Head(q), i) THEN DiscardPassed(Tail(q), i) ELSE q

\* a match without the arm that skips the blocks a span covers
MatchFirstNoSkip(q, i, overflow_checks) ==
    IF q = <<>> THEN "native"
    ELSE IF Head(q).end = 0 /\ overflow_checks THEN "panic"
    ELSE IF Head(q).end >= 1 /\ i = Head(q).end - 1 THEN "consume"
    ELSE "native"

\* the match on spans.first(): the arm taken for block i.  `*end - 1` is a
\* usize subtraction: with end = 0 it panics in a build with overflow checks
\* and wraps to usize::MAX, which no index equals, in a build without.
MatchFirst(q, i, overflow_checks) ==
    IF q = <<>> THEN "native"
    ELSE IF Head(q).end = 0 /\ overflow_checks THEN "panic"
    ELSE IF Head(q).end >= 1 /\ i = Head(q).end - 1 THEN "consume"
    ELSE IF Head(q).start <= i /\ i < Head(q).end THEN "skip"
    ELSE "native"

\* a handler that writes an image for every attachment, known or not
handle_attachment_any(attachment, i) == <<Written("img", i, 0)>>

\* handle_attachment: what it writes
handle_attachment(attachment, i) ==
    IF attachment = "Image" THEN <<Written("img", i, 0)>> ELSE <<>>

\* the attachments of a row, one after the other
RECURSIVE RowWrites(_, _)
RowWrites(row, i) ==
    IF row = <<>> THEN <<>>
    ELSE (IF Head(row).kind = "Attachment"
          THEN handle_attachment(Head(row).attachment, i)
          ELSE <<>>) \o RowWrites(Tail(row), i)

\* a loop body that ends every arm with the separator
NativeWritesSeparated(block, i) ==
    CASE block.kind = "Markdown" -> <<Written("markdown", i, 0), Separator(i)>>
      [] block.kind = "Attachment" ->
            handle_attachment(block.attachment, i) \o <<Separator(i)>>
      [] block.kind = "Ask" -> <<Written("ask", i, 0), Separator(i)>>
      [] block.kind = "AttachmentRow" ->
            RowWrites(block.attachments, i) \o <<Separator(i)>>
      [] OTHER -> <<Separator(i)>>

\* match block { ... } and the write after it: the Markdown and Ask arms
\* `continue` before output.write_all(b"\n\n")
NativeWrites(block, i) ==
    CASE block.kind = "Markdown" -> <<Written("markdown", i, 0)>>
      [] block.kind = "Attachment" ->
            handle_attachment(block.attachment, i) \o <<Separator(i)>>
      [] block.kind = "Ask" -> <<Written("ask", i, 0)>>
      [] block.kind = "AttachmentRow" ->
            RowWrites(block.attachments, i) \o <<Separator(i)>>
      [] OTHER -> <<Separator(i)>>

\* the steps of convert_single_chost before the loop that can fail:
\* File::create, the write of the metadata header, the write of the separator
\* after it, the parse of a span's ast; "none" when none of them fails
BeginSteps == {"none", "create", "header", "separator", "spans"}

\* what is in the file when the step fails
WrittenBefore(failing) ==
    CASE failing = "separator" -> <<Written("meta", -1, 0)>>
      [] failing \in {"spans", "none"} -> <<Written("meta", -1, 0), Separator(-1)>>
      [] OTHER -> <<>>

\* File::create, the metadata header, the separator, the spans parsed and
\* sorted, with the step that fails, if any; a span can fail to parse only if
\* there is one
begin(failing) ==
    /\ mpc = "start"
    /\ failing = "spans" => spans_in # <<>>
    /\ output' = WrittenBefore(failing)
    /\ IF failing = "none"
       THEN /\ spans' = SortByKey(spans_in)
            /\ mpc' = "loop"
       ELSE /\ mpc' = "err"
            /\ UNCHANGED spans
    /\ UNCHANGED <<blocks, spans_in, m_i, visits>>

single_begin ==
    /\ \E failing \in BeginSteps : begin(failing)
    /\ UNCHANGED <<unitVars, domVars, cacheVars, astVars, fragVars>>

\* one turn of for (i, block) in post.blocks.into_iter().enumerate()
loop_iteration ==
    /\ mpc = "loop"
    /\ m_i < Len(blocks)
    /\ \E overflow_checks \in BOOLEAN :
        LET i == m_i
            block == blocks[i + 1]
            q == DiscardPassed(spans, i)
            arm == MatchFirst(q, i, overflow_checks)
            first == IF q = <<>> THEN NoSpan ELSE Head(q)
            writes == CASE arm = "consume" -> <<Written("ast", i, first.ast)>>
                        [] arm = "native" -> NativeWrites(block, i)
                        [] OTHER -> <<>>
        IN \* the k-th write of this turn fails (an attachment that cannot be
           \* cached, a file that cannot be written), or none does (k = 0)
           \E k \in 0..Len(writes) :
             /\ visits' = Append(visits, [i |-> i, arm |-> arm, first |-> first,
                                          failed |-> k > 0])
             /\ spans' = IF arm = "consume" THEN Tail(q) ELSE q
             /\ IF arm = "panic"
                THEN /\ mpc' = "panic"
                     /\ UNCHANGED <<output, m_i>>
                ELSE IF k = 0
                THEN /\ output' = output \o writes
                     /\ m_i' = i + 1
                     /\ UNCHANGED mpc
                ELSE /\ output' = output \o SubSeq(writes, 1, k - 1)
                     /\ mpc' = "err"
                     /\ UNCHANGED m_i
    /\ UNCHANGED <<blocks, spans_in>>
    /\ UNCHANGED <<unitVars, domVars, cacheVars, astVars, fragVars>>

\* the loop is over: Ok(())
single_end ==
    /\ mpc = "loop"
    /\ m_i = Len(blocks)
    /\ mpc' = "ok"
    /\ UNCHANGED <<blocks, spans_in, spans, m_i, output, visits>>
    /\ UNCHANGED <<unitVars, domVars, cacheVars, astVars, fragVars>>

MergeInit(posts) ==
    /\ \E p \in posts : blocks = p.blocks /\ spans_in = p.spans
    /\ spans = <<>>
    /\ m_i = 0
    /\ output = <<>>
    /\ mpc = "start"
    /\ visits = <<>>

\* no conversion: the state of the loop's variables in the other specifications
MergeIdle ==
    /\ blocks = <<>>
    /\ spans_in = <<>>
    /\ spans = <<>>
    /\ m_i = 0
    /\ output = <<>>
    /\ mpc = "idle"
    /\ visits = <<>>

\* spans of any shape: unsorted, overlapping, empty, inverted, out of range;
\* the AST of the k-th span of the input is called k
AnySpans ==
    UNION {[1..n -> [start : 0..MaxBlocks + 1, end : 0..MaxBlocks + 1]] :
              n \in 0..MaxSpans}

WithAst(s) == [k \in DOMAIN s |-> [ast |-> k, start |-> s[k].start, end |-> s[k].end]]

\* posts of up to MaxBlocks Markdown blocks with any spans
MergePosts ==
    {[blocks |-> [k \in 1..n |-> MarkdownBlock], spans |-> WithAst(s)] :
        n \in 0..MaxBlocks, s \in AnySpans}

\* the Block values: every variant, a row of up to MaxRow nested blocks
RowKids == {AttachmentBlock("Image"), MarkdownBlock}

BlockValues ==
    {MarkdownBlock, AskBlock, UnknownBlock,
     AttachmentBlock("Image"), AttachmentBlock("Unknown")}
      \cup {AttachmentRowBlock(row) : row \in SeqsUpTo(RowKids, MaxRow)}

\* posts of up to MaxBodyBlocks blocks of any variant, with no span or one
\* span of any shape over the block indices
BodyPosts ==
    {[blocks |-> b, spans |-> WithAst(s)] :
        b \in SeqsUpTo(BlockValues, MaxBodyBlocks),
        s \in {<<>>} \cup {<<[start |-> x, end |-> y]>> :
                              x \in 0..MaxBodyBlocks, y \in 0..MaxBodyBlocks}}

NextMerge ==
    \/ single_begin
    \/ loop_iteration
    \/ single_end
(* -------------- process_chost_fragment: the mention pass -------------- *)
\* a node of the document: an element, a text node ("#text") or the root
\* ("#document"); an attribute value is a sequence of pieces of text
NodeOf(name, attrs, children) == [name |-> name, attrs |-> attrs, children |-> children]

Attr(name, value) == [name |-> name, value |-> value]

\* dom::attr_value: the value of the first attribute of that name, if any
HasAttr(attrs, name) == \E k \in DOMAIN attrs : attrs[k].name = name

AttrValue(attrs, name) ==
    attrs[Min({k \in DOMAIN attrs : attrs[k].name = name})].value

\* dom::create_element: a new element with no attribute and no child
CreateElement(name) == NodeOf(name, <<>>, <<>>)

\* format!("https://cohost.org/{handle}")
ProfileUrl(handle) == <<"https://cohost.org/">> \o handle

\* name == Mention and attr_value(&attrs, "handle") is Some
IsMentionWithHandle(node) == node.name = "Mention" /\ HasAttr(node.attrs, "handle")

\* the id of the next node created
NewId(d) == Cardinality(DOMAIN d)

\* for kid in node.children.borrow().iter() { ... }: the children of the node
\* rebuilt, the queue extended, the replaced kids emptied
RECURSIVE RebuildChildren(_, _)
RebuildChildren(kids, acc) ==
    IF kids = <<>> THEN acc
    ELSE LET kid == Head(kids)
             node == acc.dom[kid]
         IN IF IsMentionWithHandle(node)
            THEN LET new_kid == NewId(acc.dom)
                     a == [CreateElement("a") EXCEPT
                             !.children = node.children,
                             !.attrs = <<Attr("href",
                                              ProfileUrl(AttrValue(node.attrs, "handle")))>>]
                 IN RebuildChildren(Tail(kids),
                        [dom |-> Put([acc.dom EXCEPT ![kid].children = <<>>], new_kid, a),
                         children |-> Append(acc.children, new_kid),
                         queue |-> acc.queue])
            ELSE RebuildChildren(Tail(kids),
                        [dom |-> acc.dom,
                         children |-> Append(acc.children, kid),
                         queue |-> Append(acc.queue, kid)])

\* one turn of while !queue.is_empty()
mention_iteration ==
    /\ dpc = "mention"
    /\ queue # <<>>
    /\ LET node == Head(queue)
           r == RebuildChildren(dom[node].children,
                                [dom |-> dom, children |-> <<>>, queue |-> Tail(queue)])
       IN /\ dom' = [r.dom EXCEPT ![node].children = r.children]
          /\ queue' = r.queue
    /\ UNCHANGED <<dom_in, dpc>>
    /\ UNCHANGED <<unitVars, mergeVars, cacheVars, astVars, fragVars>>

\* the queue is empty: Ok(serialize(dom)?)
mention_end ==
    /\ dpc = "mention"
    /\ queue = <<>>
    /\ dpc' = "done"
    /\ UNCHANGED <<dom_in, dom, queue>>
    /\ UNCHANGED <<unitVars, mergeVars, cacheVars, astVars, fragVars>>

\* the elements and text nodes a document is drawn from
MentionWithHandle == NodeOf("Mention", <<Attr("handle", <<"eggbug">>)>>, <<>>)

MentionBare == NodeOf("Mention", <<>>, <<>>)

OtherElement == NodeOf("b", <<>>, <<>>)

TextNode == NodeOf("#text", <<>>, <<>>)

NodeValues == {MentionWithHandle, MentionBare, OtherElement, TextNode}

RECURSIVE Ascending(_)
Ascending(S) == IF S = {} THEN <<>> ELSE <<Min(S)>> \o Ascending(S \ {Min(S)})

\* the document of n nodes in which node k has parent[k] as parent and is
\* what[k]; the children of a node are in the order of their ids
Document(n, parent, what) ==
    [id \in 0..n |->
        LET kids == Ascending({k \in 1..n : parent[k] = id})
        IN IF id = 0 THEN NodeOf("#document", <<>>, kids)
           ELSE [what[id] EXCEPT !.children = kids]]

\* the parents the nodes may have: an earlier node that is no text node
Parents(n, what) ==
    {f \in [1..n -> 0..n] :
        \A k \in 1..n : /\ f[k] < k
                        /\ f[k] > 0 => what[f[k]] # TextNode}

\* every document of up to MaxNodes nodes
Documents ==
    UNION {UNION {{Document(n, parent, what) : parent \in Parents(n, what)} :
                     what \in [1..n -> NodeValues]} :
              n \in 0..MaxNodes}

DomInit ==
    /\ dom_in \in Documents
    /\ dom = dom_in
    /\ queue = <<0>>
    /\ dpc = "mention"

\* no fragment: the state of the pass's variables in the other specifications
DomIdle ==
    /\ dom_in = <<>>
    /\ dom = <<>>
    /\ queue = <<>>
    /\ dpc = "idle"

NextDom ==
    \/ mention_iteration
    \/ mention_end

(* ------------------------- the attachment cache ----------------------- *)
\* a URL, a file name and a relative URL are sequences of pieces of text
Workers == {"w1", "w2"}

Variants == {"full", "thumb"}

IdNames == <<"44444444", "55555555", "66666666">>

AttIds == {IdNames[k] : k \in 1..MaxAttIds}

\* cohost::attachment_id_to_url
attachment_id_to_url(id) == <<"https://cohost.org/rc/attachment-redirect/", id>>

\* images_path.join(id), thumbs_path.join(id): the id directory of a variant
IdDir(variant, id) == <<variant, id>>

\* the answers of the service to the redirect probe: no Location header, or
\* the address of the file
NoLocation == <<>>

Locations ==
    {<<"https:", "/", "/", "staging.cohostcdn.org", "/", "attachment", "/",
       "egg", "%20", "bug.png">>,
     <<"https:", "/", "/", "staging.cohostcdn.org", "/", "attachment", "/",
       "chunk.png">>}

\* what a GET of the address answers with: MaxChunks pieces
Body(url) == [k \in 1..MaxChunks |-> [of |-> url, part |-> k]]

\* url.rsplit_once("/"): the places of "/" and what follows the last one
Slashes(url) == {k \in DOMAIN url : url[k] = "/"}

Max(S) == CHOOSE x \in S : \A y \in S : y <= x

AfterLastSlash(url) == SubSeq(url, Max(Slashes(url)) + 1, Len(url))

\* urlencoding::decode
DecodePiece(piece) == IF piece = "%20" THEN " " ELSE piece

Decode(name) == [k \in DOMAIN name |-> DecodePiece(name[k])]

\* a file name that keeps the escapes of the address
UndecodedFilename(location) == AfterLastSlash(location)

\* the file name an address is stored under
OriginalFilename(location) == Decode(AfterLastSlash(location))

\* a thumbnail address without the width parameter
thumb_unchanged(url) == url

\* fn thumb(url): format!("{url}?width=675")
thumb(url) == url \o <<"?width=675">>

\* cached_attachment_image_url, cached_attachment_thumb_url
CachedUrl(variant, id, filename) ==
    IF variant = "thumb"
    THEN <<"attachments/thumbs/", id, "/">> \o filename
    ELSE <<"attachments/", id, "/">> \o filename

\* a write that lands behind what the file holds, as on a file opened to append
WriteAtEnd(content, off, piece) == Append(content, piece)

\* a write of one piece at an offset of a file: what lies before stays, a gap
\* is filled with zeros
WriteAt(content, off, piece) ==
    [k \in 1..(IF off + 1 > Len(content) THEN off + 1 ELSE Len(content)) |->
        IF k = off + 1 THEN piece
        ELSE IF k <= Len(content) THEN content[k]
        ELSE [of |-> <<>>, part |-> 0]]

NoResult == [state |-> "none", url |-> <<>>, error |-> ""]

Ok(url) == [state |-> "ok", url |-> url, error |-> ""]

Err(error) == [state |-> "err", url |-> <<>>, error |-> error]

NoCall ==
    [pc |-> "idle", id |-> "", variant |-> "", url |-> <<>>, filename |-> <<>>,
     off |-> 0, held |-> FALSE, requests |-> <<>>, wrote |-> FALSE,
     result |-> NoResult]

Request(method, url) == [method |-> method, url |-> url]

\* a lookup that never finds a file
NeverHit(dir) == FALSE

\* read_dir(path), entries.next(), File::open: the directory holds a file
\* that can be opened
CacheHit(dir) == DOMAIN dir # {}

\* cache_attachment_image(id), cache_attachment_thumb(id), up to and with
\* create_dir_all(&path)
cache_attachment(w) ==
    /\ wk[w].pc \in {"idle", "returned"}
    /\ started < MaxResolves
    /\ started' = started + 1
    /\ \E id \in AttIds, variant \in Variants :
        LET dir == IdDir(variant, id)
            exists == dir \in DOMAIN cache
        IN /\ cache' = IF exists THEN cache ELSE Put(cache, dir, <<>>)
           /\ wk' = [wk EXCEPT ![w] =
                        [NoCall EXCEPT !.pc = "lookup", !.id = id, !.variant = variant,
                                       !.url = attachment_id_to_url(id),
                                       !.held = exists /\ DOMAIN cache[dir] # {},
                                       !.wrote = ~exists]]
    /\ last' = [last EXCEPT ![w] = wk[w]]
    /\ UNCHANGED <<remote, returned>>
    /\ UNCHANGED <<unitVars, mergeVars, domVars, astVars, fragVars>>

\* a probe that takes the address it asked for as the redirect target when
\* the answer has no Location header
probe_unchecked(w) ==
    /\ wk[w].pc = "probe"
    /\ LET c == wk[w]
           asked == Append(c.requests, Request("HEAD", c.url))
           location == remote[c.id]
       IN wk' = [wk EXCEPT ![w] =
            IF location = NoLocation
            THEN [c EXCEPT !.requests = asked, !.pc = "download",
                           !.filename = <<c.id>>]
            ELSE [c EXCEPT !.requests = asked, !.pc = "download",
                           !.filename = OriginalFilename(location),
                           !.url = IF c.variant = "thumb" THEN thumb(location)
                                   ELSE location]]
    /\ UNCHANGED <<remote, cache, last, started, returned>>
    /\ UNCHANGED <<unitVars, mergeVars, domVars, astVars, fragVars>>

\* cached_get_attachment, the look into the id directory
lookup(w) ==
    /\ wk[w].pc = "lookup"
    /\ wk' = [wk EXCEPT ![w].pc =
                IF CacheHit(cache[IdDir(wk[w].variant, wk[w].id)]) THEN "url" ELSE "probe"]
    /\ UNCHANGED <<remote, cache, last, started, returned>>
    /\ UNCHANGED <<unitVars, mergeVars, domVars, astVars, fragVars>>

\* client.head(url).send(), the Location header, the file name
probe(w) ==
    /\ wk[w].pc = "probe"
    /\ LET c == wk[w]
           asked == Append(c.requests, Request("HEAD", c.url))
           location == remote[c.id]
       IN wk' = [wk EXCEPT ![w] =
            IF location = NoLocation
            THEN [c EXCEPT !.requests = asked, !.pc = "returned",
                           !.result = Err("expected redirect")]
            ELSE IF Slashes(location) = {}
            THEN [c EXCEPT !.requests = asked, !.pc = "returned",
                           !.result = Err("redirect target has no slashes")]
            ELSE [c EXCEPT !.requests = asked, !.pc = "download",
                           !.filename = OriginalFilename(location),
                           !.url = IF c.variant = "thumb" THEN thumb(location)
                                   ELSE location]]
    /\ UNCHANGED <<remote, cache, last, started, returned>>
    /\ UNCHANGED <<unitVars, mergeVars, domVars, astVars, fragVars>>

\* reqwest::blocking::get(url)?.bytes()?
download(w) ==
    /\ wk[w].pc = "download"
    /\ wk' = [wk EXCEPT ![w].requests = Append(@, Request("GET", wk[w].url)),
                        ![w].pc = "create"]
    /\ UNCHANGED <<remote, cache, last, started, returned>>
    /\ UNCHANGED <<unitVars, mergeVars, domVars, astVars, fragVars>>

\* File::create(&path): a new empty file, or the old one cut to nothing
create_file(w) ==
    /\ wk[w].pc = "create"
    /\ cache' = [cache EXCEPT ![IdDir(wk[w].variant, wk[w].id)] =
                    Put(@, wk[w].filename, <<>>)]
    /\ wk' = [wk EXCEPT ![w].pc = "write", ![w].off = 0, ![w].wrote = TRUE]
    /\ UNCHANGED <<remote, last, started, returned>>
    /\ UNCHANGED <<unitVars, mergeVars, domVars, astVars, fragVars>>

\* write_all(&result): one write call
write_chunk(w) ==
    /\ wk[w].pc = "write"
    /\ LET c == wk[w]
           bytes == Body(c.url)
       IN /\ cache' = [cache EXCEPT ![IdDir(c.variant, c.id)][c.filename] =
                          WriteAt(@, c.off, bytes[c.off + 1])]
          /\ wk' = [wk EXCEPT ![w].off = c.off + 1,
                              ![w].pc = IF c.off + 1 = Len(bytes) THEN "url" ELSE "write"]
    /\ UNCHANGED <<remote, last, started, returned>>
    /\ UNCHANGED <<unitVars, mergeVars, domVars, astVars, fragVars>>

\* cached_attachment_image_url, cached_attachment_thumb_url: the first entry
\* of the id directory, in whatever order the file system lists it
cached_url(w) ==
    /\ wk[w].pc = "url"
    /\ LET c == wk[w]
           dir == cache[IdDir(c.variant, c.id)]
       IN IF DOMAIN dir = {}
          THEN /\ wk' = [wk EXCEPT ![w].pc = "returned",
                                   ![w].result = Err("directory is empty")]
               /\ UNCHANGED returned
          ELSE \E name \in DOMAIN dir :
                 /\ wk' = [wk EXCEPT ![w].pc = "returned",
                                     ![w].result = Ok(CachedUrl(c.variant, c.id, name))]
                 /\ returned' = [returned EXCEPT ![IdDir(c.variant, c.id)] =
                                    @ \cup {CachedUrl(c.variant, c.id, name)}]
    /\ UNCHANGED <<remote, cache, last, started>>
    /\ UNCHANGED <<unitVars, mergeVars, domVars, astVars, fragVars>>

\* an empty cache; the service answers the probe of an id always the same way
CacheInit ==
    /\ remote \in [AttIds -> {NoLocation} \cup Locations]
    /\ cache = <<>>
    /\ wk = [w \in Workers |-> NoCall]
    /\ last = [w \in Workers |-> NoCall]
    /\ started = 0
    /\ returned = [dir \in Variants \X AttIds |-> {}]

\* no cache call: the state of the cache's variables in the other specifications
CacheIdle ==
    /\ remote = <<>>
    /\ cache = <<>>
    /\ wk = <<>>
    /\ last = <<>>
    /\ started = 0
    /\ returned = <<>>

NextCache ==
    \/ \E w \in Workers : cache_attachment(w)
    \/ \E w \in Workers : lookup(w)
    \/ \E w \in Workers : probe(w)
    \/ \E w \in Workers : download(w)
    \/ \E w \in Workers : create_file(w)
    \/ \E w \in Workers : write_chunk(w)
    \/ \E w \in Workers : cached_url(w)

(* ----------------------------- process_ast ---------------------------- *)
\* Ast values; a field a variant lacks holds "" or <<>>.  The properties of
\* an Element are a map from property name to IDL value.
AstRoot(children) ==
    [type |-> "Root", tagName |-> "", properties |-> <<>>, children |-> children,
     value |-> ""]

AstElement(tagName, properties, children) ==
    [type |-> "Element", tagName |-> tagName, properties |-> properties,
     children |-> children, value |-> ""]

AstText(value) ==
    [type |-> "Text", tagName |-> "", properties |-> <<>>, children |-> <<>>,
     value |-> value]

\* IDL values: a boolean, a number, a string
IdlBool(b) == [idl |-> "bool", v |-> IF b THEN "true" ELSE "false"]

IdlNumber(n) == [idl |-> "num", v |-> n]

IdlString(str) == [idl |-> "str", v |-> str]

\* the property names of the model, in the order of String::cmp
PropNames == <<"reversed", "start", "type", "zzz">>

\* n1.cmp(n2): the place of a name in that order
NameRank(name) == CHOOSE k \in DOMAIN PropNames : PropNames[k] = name

\* the (tag name, property name) pairs the conversion has a rule for
ConvertibleProps == {<<"ol", "reversed">>, <<"ol", "start">>, <<"ol", "type">>}

\* cohost::convert_idl_to_content_attribute: a boolean gives a bare attribute
\* when true and none when false, a number or string gives its text, a
\* property without a rule gives none
convert_idl_to_content_attribute(tagName, name, value) ==
    IF <<tagName, name>> \notin ConvertibleProps THEN <<>>
    ELSE IF value.idl = "bool"
    THEN (IF value.v = "true" THEN <<Attr(name, <<>>)>> ELSE <<>>)
    ELSE <<Attr(name, <<value.v>>)>>

\* the orders a map of properties may be enumerated in
Enumerations(properties) ==
    {order \in [1..Cardinality(DOMAIN properties) -> DOMAIN properties] :
        \A a \in DOMAIN order : \A b \in DOMAIN order : a # b => order[a] # order[b]}

\* properties.into_iter().collect::<Vec<_>>() in one of those orders
Collected(properties, order) ==
    [k \in DOMAIN order |-> <<order[k], properties[order[k]]>>]

\* properties left in the order they were enumerated in
Unsorted(properties) == properties

RECURSIVE InsertByName(_, _)
InsertByName(sorted, x) ==
    IF sorted = <<>> THEN <<x>>
    ELSE IF NameRank(Head(sorted)[1]) <= NameRank(x[1])
         THEN <<Head(sorted)>> \o InsertByName(Tail(sorted), x)
         ELSE <<x>> \o sorted

\* properties.sort_by(|(n1, _v1), (n2, _v2)| n1.cmp(n2))
RECURSIVE SortByName(_)
SortByName(properties) ==
    IF properties = <<>> THEN <<>>
    ELSE InsertByName(SortByName(SubSeq(properties, 1, Len(properties) - 1)),
                      properties[Len(properties)])

\* properties.into_iter().filter_map(...).collect()
RECURSIVE ContentAttributes(_, _)
ContentAttributes(tagName, properties) ==
    IF properties = <<>> THEN <<>>
    ELSE convert_idl_to_content_attribute(tagName, Head(properties)[1],
                                          Head(properties)[2])
            \o ContentAttributes(tagName, Tail(properties))

\* Node::new(NodeData::Text { contents })
TextOf(value) == NodeOf("#text", <<Attr("#contents", <<value>>)>>, <<>>)

\* children.into_iter().map(|node| (node, parent.clone())).collect()
WithParent(children, parent) ==
    [k \in DOMAIN children |-> [node |-> children[k], parent |-> parent]]

\* ast_queue.extend(...)
Extend(q, items) == q \o items

\* parent.children.borrow_mut().push(node), the node new in the fragment
PushChild(d, parent, node) ==
    Put([d EXCEPT ![parent].children = Append(@, NewId(d))], NewId(d), node)

\* create_fragment() and the queue holding the root
ast_begin ==
    /\ apc = "start"
    /\ html' = (0 :> NodeOf("#fragment", <<>>, <<>>))
    /\ ast_queue' = <<[node |-> ast_in, parent |-> 0]>>
    /\ apc' = "walk"
    /\ UNCHANGED ast_in
    /\ UNCHANGED <<unitVars, mergeVars, domVars, cacheVars, fragVars>>

\* one turn of while !ast_queue.is_empty()
ast_iteration ==
    /\ apc = "walk"
    /\ ast_queue # <<>>
    /\ LET node == Head(ast_queue).node
           parent == Head(ast_queue).parent
           rest == Tail(ast_queue)
       IN CASE node.type = "Root" ->
                 /\ ast_queue' = Extend(rest, WithParent(node.children, parent))
                 /\ UNCHANGED html
            [] node.type = "Element" ->
                 \E order \in Enumerations(node.properties) :
                    LET properties == SortByName(Collected(node.properties, order))
                        attrs == ContentAttributes(node.tagName, properties)
                        element == NodeOf(node.tagName, attrs, <<>>)
                    IN /\ html' = PushChild(html, parent, element)
                       /\ ast_queue' = Extend(rest, WithParent(node.children, NewId(html)))
            [] OTHER ->
                 /\ html' = PushChild(html, parent, TextOf(node.value))
                 /\ ast_queue' = rest
    /\ UNCHANGED <<ast_in, apc>>
    /\ UNCHANGED <<unitVars, mergeVars, domVars, cacheVars, fragVars>>

\* the queue is empty: dom
ast_end ==
    /\ apc = "walk"
    /\ ast_queue = <<>>
    /\ apc' = "done"
    /\ UNCHANGED <<ast_in, ast_queue, html>>
    /\ UNCHANGED <<unitVars, mergeVars, domVars, cacheVars, fragVars>>

\* the maps of properties of an Element of the model
OrderedListProperties ==
    ("start" :> IdlNumber("2")) @@ ("reversed" :> IdlBool(TRUE))
        @@ ("zzz" :> IdlString("q"))

PropertyMaps ==
    {OrderedListProperties,
     ("type" :> IdlString("a")) @@ ("reversed" :> IdlBool(FALSE))}

\* the ASTs of the model: a Root over up to MaxAstKids nodes, each a Text, a
\* Root or an Element over up to MaxAstKids Texts, or an empty Element
AstLeaves == {AstText("a"), AstText("b")}

AstInner ==
    AstLeaves
      \cup {AstRoot(kids) : kids \in SeqsUpTo(AstLeaves, MaxAstKids)}
      \cup {AstElement("ol", OrderedListProperties, kids) :
               kids \in SeqsUpTo(AstLeaves, MaxAstKids)}
      \cup {AstElement("ol", properties, <<>>) : properties \in PropertyMaps}

Asts == {AstRoot(kids) : kids \in SeqsUpTo(AstInner, MaxAstKids)}

AstInit ==
    /\ ast_in \in Asts
    /\ ast_queue = <<>>
    /\ html = <<>>
    /\ apc = "start"

\* no AST: the state of process_ast's variables in the other specifications
AstIdle ==
    /\ ast_in = <<>>
    /\ ast_queue = <<>>
    /\ html = <<>>
    /\ apc = "idle"

NextAst ==
    \/ ast_begin
    \/ ast_iteration
    \/ ast_end

(* ------------ process_chost_fragment: the attachment pass ------------- *)
\* a URL that any two pieces of text give an id
any_url_to_id(url) == IF Len(url) = 2 THEN <<url[2]>> ELSE <<>>

\* cohost::attachment_url_to_id: Some(id), here <<id>>, for the canonical
\* attachment-redirect URL of an id and None, here <<>>, for any other text
attachment_url_to_id(url) ==
    IF /\ Len(url) = 2
       /\ url[1] = "https://cohost.org/rc/attachment-redirect/"
       /\ url[2] \in Range(IdNames)
    THEN <<url[2]>>
    ELSE <<>>

\* Some(("img", "src")), Some(("a", "href")) or None
ElementAttrNames(name) ==
    IF name = "img" THEN <<"img", "src">>
    ELSE IF name = "a" THEN <<"a", "href">>
    ELSE <<>>

\* dom::find_attr_mut: the place of the first attribute of that name
FindAttr(attrs, attr_name) == Min({k \in DOMAIN attrs : attrs[k].name = attr_name})

\* format!("data-cohost-{attr_name}")
DataCohost(attr_name) ==
    IF attr_name = "src" THEN "data-cohost-src" ELSE "data-cohost-href"

\* what context.cache_attachment_image(id) returns when it returns Ok
CacheResolved(id) == CachedUrl("full", id, <<"chunk.png">>)

\* if element_name == "img" { attrs.push(loading="lazy") }
WithLoading(element_name, attrs) ==
    IF element_name = "img" THEN Append(attrs, Attr("loading", <<"lazy">>)) ELSE attrs

\* one element of for node in Traverse::new(dom.document.clone())
attachment_visit ==
    /\ fpc = "attachments"
    /\ f_i < Len(frag)
    /\ LET k == f_i + 1
           node == frag[k]
           names == ElementAttrNames(node.name)
       IN IF names = <<>>
          THEN /\ f_i' = k
               /\ UNCHANGED <<frag, attachment_ids, cache_calls, fpc>>
          ELSE LET attr_name == names[2]
                   found == HasAttr(node.attrs, attr_name)
                   at == FindAttr(node.attrs, attr_name)
                   id == IF found THEN attachment_url_to_id(node.attrs[at].value)
                         ELSE <<>>
               IN IF id = <<>>
                  THEN /\ frag' = [frag EXCEPT ![k].attrs = WithLoading(names[1], @)]
                       /\ f_i' = k
                       /\ UNCHANGED <<attachment_ids, cache_calls, fpc>>
                  ELSE /\ attachment_ids' = Append(attachment_ids, id[1])
                       /\ cache_calls' = Append(cache_calls, id[1])
                       /\ \E ok \in BOOLEAN :
                            IF ok
                            THEN /\ frag' = [frag EXCEPT ![k].attrs =
                                      WithLoading(names[1],
                                          Append([@ EXCEPT ![at].value = CacheResolved(id[1])],
                                                 Attr(DataCohost(attr_name),
                                                      node.attrs[at].value)))]
                                 /\ f_i' = k
                                 /\ UNCHANGED fpc
                            ELSE /\ fpc' = "err"
                                 /\ UNCHANGED <<frag, f_i>>
    /\ UNCHANGED frag_in
    /\ UNCHANGED <<unitVars, mergeVars, domVars, cacheVars, astVars>>

\* the traversal is over; the mention pass follows
attachment_end ==
    /\ fpc = "attachments"
    /\ f_i = Len(frag)
    /\ fpc' = "mention"
    /\ UNCHANGED <<frag_in, frag, f_i, attachment_ids, cache_calls>>
    /\ UNCHANGED <<unitVars, mergeVars, domVars, cacheVars, astVars>>

\* the URLs of the model: the attachment-redirect URLs of two ids, another URL
FragUrls ==
    {attachment_id_to_url(IdNames[1]), attachment_id_to_url(IdNames[2]),
     <<"https://example.com/", IdNames[1]>>}

\* the attribute lists of the model; the names of a list differ, as those of
\* a parsed element do
FragAttrs ==
    {<<>>}
      \cup {<<Attr(n, u)>> : n \in {"src", "href"}, u \in FragUrls}
      \cup {<<Attr("alt", <<"text">>), Attr(n, u)>> : n \in {"src", "href"}, u \in FragUrls}

FragElements ==
    {NodeOf(name, attrs, <<>>) : name \in {"img", "a", "video"}, attrs \in FragAttrs}

FragInit ==
    /\ frag_in \in SeqsUpTo(FragElements, MaxFragNodes)
    /\ frag = frag_in
    /\ f_i = 0
    /\ attachment_ids = <<>>
    /\ cache_calls = <<>>
    /\ fpc = "attachments"

\* no fragment: the state of the pass's variables in the other specifications
FragIdle ==
    /\ frag_in = <<>>
    /\ frag = <<>>
    /\ f_i = 0
    /\ attachment_ids = <<>>
    /\ cache_calls = <<>>
    /\ fpc = "idle"

NextFrag ==
    \/ attachment_visit
    \/ attachment_end

(* ------- a unit whose top-level conversion runs the merge loop -------- *)
\* the loop over the shared posts of the unit is over and the call
\* convert_single_chost(post, shared_post_filenames, ...) is made or under way
TopReached == \E u \in Units : upc[u] = "converting" /\ SharedLoopDone(u)

\* the file of the top-level post once the steps before the loop are done
TopFileAfter(fs, path, shared_filenames, failing) ==
    CASE failing = "create" -> fs
      [] failing = "header" -> Put(fs, path, FileAfter("created", <<>>))
      [] OTHER -> Put(fs, path, FileAfter("header", shared_filenames))

\* the call on the top-level post, up to the loop over its blocks
top_begin(u) ==
    /\ upc[u] = "converting"
    /\ SharedLoopDone(u)
    /\ \E failing \in BeginSteps :
          /\ begin(failing)
          /\ out_files' = TopFileAfter(out_files, TopFilename(post[u].postId),
                                       shared_post_filenames[u], failing)
    /\ UNCHANGED <<dir_entries, specific_post_filenames, upc, post, shared_posts,
                   shared_post_filenames, done, calls, out_dirs, run>>
    /\ UNCHANGED <<domVars, cacheVars, astVars, fragVars>>

top_loop == TopReached /\ loop_iteration

top_end == TopReached /\ single_end

\* what the call returns with, as the post converter sees it
OutcomesOfLoop(u) ==
    IF mpc = "ok" THEN {"ok"}
    ELSE IF output # <<>> THEN {"body_err"}
    ELSE IF TopFilename(post[u].postId) \in DOMAIN out_files THEN {"header_err"}
    ELSE {"create_err"}

\* the call returns: convert_single_chost(...)? and Ok(())
top_return(u) ==
    /\ upc[u] = "converting"
    /\ SharedLoopDone(u)
    /\ mpc \in {"ok", "err"}
    /\ \E outcome \in OutcomesOfLoop(u) :
          /\ calls' = [calls EXCEPT ![u] =
                          Returned(u, TopFilename(post[u].postId),
                                   shared_post_filenames[u], post[u].postId, outcome)]
          /\ upc' = [upc EXCEPT ![u] = IF outcome = "ok" THEN "ok" ELSE "err"]
          /\ out_files' = IF outcome = "ok"
                          THEN Put(out_files, TopFilename(post[u].postId),
                                   FileAfter("ok", shared_post_filenames[u]))
                          ELSE out_files
    /\ UNCHANGED <<dir_entries, specific_post_filenames, post, shared_posts,
                   shared_post_filenames, done, out_dirs, run>>
    /\ UNCHANGED <<mergeVars, domVars, cacheVars, astVars, fragVars>>

\* posts of up to MaxBodyBlocks blocks, text, images and unknown blocks, with
\* no span or a span over the first block
AbortPosts ==
    {[blocks |-> b, spans |-> sp] :
        b \in SeqsUpTo({MarkdownBlock, AttachmentBlock("Image"), UnknownBlock},
                       MaxBodyBlocks),
        sp \in {<<>>, WithAst(<<[start |-> 0, end |-> 1]>>)}}

NextAbort ==
    \/ \E u \in Units : closure_begin(u)
    \/ \E u \in Units : convert_shared(u)
    \/ \E u \in Units : single_header(u)
    \/ \E u \in Units : single_body(u)
    \/ \E u \in Units : top_begin(u)
    \/ top_loop
    \/ top_end
    \/ \E u \in Units : top_return(u)
    \/ main_return

(* --------------------------- specifications --------------------------- *)
Init ==
    UnitInit(RunPosts) /\ MergeIdle /\ DomIdle /\ CacheIdle
    /\ AstIdle /\ FragIdle

InitUnit ==
    UnitInit(UnitPosts) /\ MergeIdle /\ DomIdle /\ CacheIdle
    /\ AstIdle /\ FragIdle

InitMerge ==
    UnitIdle /\ MergeInit(MergePosts) /\ DomIdle /\ CacheIdle
    /\ AstIdle /\ FragIdle

InitBody ==
    UnitIdle /\ MergeInit(BodyPosts) /\ DomIdle /\ CacheIdle
    /\ AstIdle /\ FragIdle

InitDom ==
    UnitIdle /\ MergeIdle /\ DomInit /\ CacheIdle
    /\ AstIdle /\ FragIdle

InitCache ==
    UnitIdle /\ MergeIdle /\ DomIdle /\ CacheInit
    /\ AstIdle /\ FragIdle

InitAbort ==
    UnitInit(UnitPosts) /\ MergeInit(AbortPosts) /\ DomIdle /\ CacheIdle
    /\ AstIdle /\ FragIdle

InitAst ==
    UnitIdle /\ MergeIdle /\ DomIdle /\ CacheIdle
    /\ AstInit /\ FragIdle

InitFrag ==
    UnitIdle /\ MergeIdle /\ DomIdle /\ CacheIdle
    /\ AstIdle /\ FragInit

Next == NextRun

Spec == Init /\ [][Next]_vars

SpecUnit == InitUnit /\ [][Next]_vars

SpecMerge == InitMerge /\ [][NextMerge]_vars

SpecBody == InitBody /\ [][NextMerge]_vars

SpecDom == InitDom /\ [][NextDom]_vars

SpecCache == InitCache /\ [][NextCache]_vars

SpecAbort == InitAbort /\ [][NextAbort]_vars

SpecAst == InitAst /\ [][NextAst]_vars

SpecFrag == InitFrag /\ [][NextFrag]_vars
(* ------------------- claims: post converter, run driver --------------- *)
\* a unit whose closure parsed its post and returned Ok
Converted(u) == upc[u] = "ok" /\ post[u] # NoPost

\* the files under the output path that belong to the post with this id
FilesOf(post_id) == {p \in DOMAIN out_files : p[1] = post_id}

\* C1 as stated: a converted post leaves exactly 1 + |shareTree| distinct
\* output files, whatever the post ids of the share tree are.
C1_OneFilePerMember ==
    \A u \in Units :
        Converted(u) =>
            Cardinality(FilesOf(dir_entries[u].postId))
                = 1 + Len(dir_entries[u].shareTree)

\* C1 amended: a converted post leaves the top-level file and one file per
\* distinct post id of its share tree, 1 + |ids of the share tree| files in
\* all, each of them complete.
C1_OneFilePerSharedId ==
    \A u \in Units :
        Converted(u) =>
            LET id == dir_entries[u].postId
                tree == dir_entries[u].shareTree
            IN /\ FilesOf(id) = {TopFilename(id)}
                                  \cup {SharedFilename(id, tree[k]) : k \in DOMAIN tree}
               /\ Cardinality(FilesOf(id)) = 1 + Cardinality(Range(tree))
               /\ \A p \in FilesOf(id) : out_files[p].complete

\* C1 witness: a converted post whose share tree names one post id twice.
C1_Witness ==
    \E u \in Units :
        /\ Converted(u)
        /\ Len(dir_entries[u].shareTree) = 2
        /\ dir_entries[u].shareTree[1] = dir_entries[u].shareTree[2]
        /\ Cardinality(FilesOf(dir_entries[u].postId)) = 2

\* C2: the calls of a unit are the share-tree members in share-tree order,
\* each with an empty reference list, then the top-level post with the
\* generated file names in share-tree order; no call follows a failed one, and
\* the top-level file exists only once every shared file is complete.
C2_SharedThenTop ==
    \A u \in Units :
        LET id == dir_entries[u].postId
            tree == dir_entries[u].shareTree
            n == Len(tree)
            names == [k \in 1..n |-> SharedFilename(id, tree[k])]
        IN /\ Len(calls[u]) <= n + 1
           /\ \A k \in DOMAIN calls[u] :
                /\ k <= n => /\ calls[u][k].path = names[k]
                             /\ calls[u][k].post = tree[k]
                             /\ calls[u][k].references = <<>>
                /\ k = n + 1 => /\ calls[u][k].path = TopFilename(id)
                                /\ calls[u][k].post = id
                                /\ calls[u][k].references = names
                /\ k < Len(calls[u]) => calls[u][k].outcome = "ok"
           /\ post[u] # NoPost /\ TopFilename(id) \in DOMAIN out_files =>
                /\ \A k \in 1..n : /\ names[k] \in DOMAIN out_files
                                   /\ out_files[names[k]].complete
                                   /\ out_files[names[k]].references = <<>>
                /\ out_files[TopFilename(id)].meta =>
                       out_files[TopFilename(id)].references = names

\* C2 witness: a unit with two different shared posts converted all three.
C2_Witness ==
    \E u \in Units :
        /\ Converted(u)
        /\ Len(calls[u]) = 3
        /\ dir_entries[u].shareTree[1] # dir_entries[u].shareTree[2]
        /\ Len(out_files[TopFilename(dir_entries[u].postId)].references) = 2

\* C10: a unit that has not finished can always take its next step, whatever
\* became of the others; a converted unit has all its files complete; main
\* returns only when every unit has finished, an error exactly when some unit
\* failed, and then the error of the first failed unit in input order.
C10_FaultIsolation ==
    /\ \A u \in Units :
          /\ ~Finished(u) /\ run = <<"running">> =>
                ENABLED (closure_begin(u) \/ convert_shared(u) \/ convert_top(u)
                            \/ single_header(u) \/ single_body(u))
          /\ Converted(u) =>
                /\ TopFilename(u) \in DOMAIN out_files
                /\ \A p \in FilesOf(u) : out_files[p].complete
    /\ run # <<"running">> =>
          /\ \A u \in Units : Finished(u)
          /\ run = <<"ok">> <=> \A u \in Units : upc[u] = "ok"
          /\ run # <<"ok">> =>
                /\ run[1] = "err"
                /\ upc[run[2]] = "err"
                /\ \A v \in Units : v < run[2] => upc[v] = "ok"

\* C10 witness: two units failed, the second one converted a shared post
\* before it did, and main returned the first unit's error.
C10_Witness ==
    /\ run = <<"err", 1>>
    /\ upc[2] = "err"
    /\ Len(calls[2]) = 2
    /\ calls[2][1].outcome = "ok"
    /\ calls[1] = <<>>

(* ------------------------ claims: the merge loop ---------------------- *)
\* the places of the output that hold this piece
Places(piece) == {x \in DOMAIN output : output[x].piece = piece}

\* the places of the output written for block i
PlacesAt(i) == {x \in DOMAIN output : output[x].at = i}

\* C3: whatever the spans are, the loop takes the block indices 0, 1, 2, ...
\* one by one, each once; it never panics, it stops before the last block only
\* on a fatal error, it can always take its next turn, and it returns Ok only
\* when it has visited every block.
C3_EveryBlockOnce ==
    /\ mpc # "panic"
    /\ \A k \in DOMAIN visits : visits[k].i = k - 1
    /\ Len(visits) <= Len(blocks)
    /\ mpc \in {"loop", "ok"} => Len(visits) = m_i
    /\ mpc = "loop" => ENABLED (loop_iteration \/ single_end)
    /\ mpc = "err" /\ visits # <<>> => visits[Len(visits)].failed
    /\ mpc = "ok" => Len(visits) = Len(blocks)

\* C3 witness: three blocks visited to the end, under an inverted span and a
\* span that ends beyond the blocks, given out of order.
C3_Witness ==
    /\ mpc = "ok"
    /\ Len(visits) = 3
    /\ Len(spans_in) = 2
    /\ spans_in[1].end = 4
    /\ spans_in[2].start > spans_in[2].end
    /\ KeyLeq(spans_in[2], spans_in[1])

\* C4: a span [s, e) with s < e <= number of blocks that is first in the queue
\* at block s: blocks s..e-2 are skipped and write nothing; block e-1 takes the
\* AST arm with this span, writes no native fragment, and, unless that write
\* fails, the span's AST is in the output exactly once, at block e-1.
C4_SpanReplacesLastBlock ==
    \A k \in DOMAIN visits :
        LET f == visits[k].first
            asts == {x \in Places("ast") : output[x].ast = f.ast}
        IN (f # NoSpan /\ visits[k].i = f.start /\ f.start < f.end
              /\ f.end <= Len(blocks)) =>
            /\ Cardinality(asts) <= 1
            /\ \A j \in DOMAIN visits :
                /\ f.start <= visits[j].i /\ visits[j].i <= f.end - 2 =>
                      /\ visits[j].arm = "skip"
                      /\ PlacesAt(visits[j].i) = {}
                /\ visits[j].i = f.end - 1 =>
                      /\ visits[j].arm = "consume"
                      /\ visits[j].first = f
                      /\ PlacesAt(f.end - 1) \subseteq asts
                      /\ ~visits[j].failed =>
                            /\ Cardinality(asts) = 1
                            /\ PlacesAt(f.end - 1) = asts

\* C4 witness: the span [0, 3) over three blocks: blocks 0 and 1 skipped,
\* block 2 replaced by the span's AST, written once.
C4_Witness ==
    /\ mpc = "ok"
    /\ Len(blocks) = 3
    /\ \E a \in DOMAIN spans_in :
          /\ spans_in[a].start = 0 /\ spans_in[a].end = 3
          /\ visits[1].first = spans_in[a]
          /\ visits[1].arm = "skip"
          /\ visits[2].arm = "skip"
          /\ visits[3].arm = "consume"
          /\ Cardinality(Places("ast")) = 1

\* the fragments of native blocks
NativePieces == {"markdown", "img", "ask"}

\* C5 as stated: in a body written to the end, every fragment of a native
\* block is followed by the separator, and only AST fragments are not.
C5_NativeFragmentsSeparated ==
    mpc = "ok" =>
        \A x \in DOMAIN output :
            output[x].piece \in NativePieces =>
                x < Len(output) /\ output[x + 1].piece = "\n\n"

\* C5 amended: the separator is written once at the end of every Attachment,
\* AttachmentRow and Unknown block that is dispatched, after whatever the
\* block wrote (the images of a row follow each other with no separator
\* between them); the fragments of Markdown and Ask blocks, like those of the
\* AST arm, are written with no separator after them.
C5_SeparatorAfterAttachments ==
    mpc \in {"loop", "ok"} =>
        /\ \A x \in DOMAIN output :
            LET w == output[x]
                ends == x = Len(output) \/ output[x + 1].at # w.at
            IN /\ w.piece \in {"markdown", "ask", "ast"} => ends
               /\ w.piece = "img" =>
                     /\ ~ends
                     /\ output[x + 1].piece \in {"img", "\n\n"}
               /\ w.piece = "\n\n" => ends
               /\ w.piece = "\n\n" /\ w.at >= 0 =>
                     blocks[w.at + 1].kind \in {"Attachment", "AttachmentRow", "Unknown"}
        /\ \A k \in DOMAIN visits :
            (visits[k].arm = "native"
               /\ blocks[k].kind \in {"Attachment", "AttachmentRow", "Unknown"})
              => Cardinality(PlacesAt(k - 1) \cap Places("\n\n")) = 1

\* C5 witness: a Markdown block and a row of two images written to the end:
\* the Markdown fragment with no separator, the two images with one.
C5_Witness ==
    /\ mpc = "ok"
    /\ Len(output) = 6
    /\ output[3].piece = "markdown"
    /\ output[4].piece = "img"
    /\ output[5].piece = "img"
    /\ output[6].piece = "\n\n"

(* ----------------------- claims: the mention pass --------------------- *)
\* the tree below a node: the node with its children in order
RECURSIVE TreeOf(_, _)
TreeOf(d, id) ==
    [name |-> d[id].name, attrs |-> d[id].attrs,
     kids |-> [k \in DOMAIN d[id].children |-> TreeOf(d, d[id].children[k])]]

\* a tree holds an element named Mention with a handle attribute
RECURSIVE HoldsMention(_)
HoldsMention(t) ==
    \/ IsMentionWithHandle(t)
    \/ \E k \in DOMAIN t.kids : HoldsMention(t.kids[k])

\* a tree with every Mention that has a handle replaced, where it stands,
\* by <a href="https://cohost.org/<handle>"> over the same children
RECURSIVE Expanded(_)
Expanded(t) ==
    LET kids == [k \in DOMAIN t.kids |-> Expanded(t.kids[k])]
    IN IF IsMentionWithHandle(t)
       THEN [name |-> "a",
             attrs |-> <<Attr("href", ProfileUrl(AttrValue(t.attrs, "handle")))>>,
             kids |-> kids]
       ELSE [name |-> t.name, attrs |-> t.attrs, kids |-> kids]

\* C6: when the mention pass is over, no element named Mention with a handle
\* attribute is left anywhere in the document, the children moved onto a new
\* <a> element included.
C6_NoMentionLeft ==
    dpc = "done" => ~HoldsMention(TreeOf(dom, 0))

\* C7: when the mention pass is over, the document is the one it started
\* from with each Mention that has a handle replaced in place by an <a> with
\* its href and the Mention's children in their order, and with every other
\* node, a Mention without a handle included, where it was.
C7_MentionsExpandedInPlace ==
    dpc = "done" => TreeOf(dom, 0) = Expanded(TreeOf(dom_in, 0))

(* ---------------------- claims: the attachment cache ------------------ *)
\* the id directory a call works on
DirOf(c) == IdDir(c.variant, c.id)

\* the URL a call must return: made of the variant, the id and the decoded
\* last segment of the address the service redirects the id to
ExpectedUrl(c) == CachedUrl(c.variant, c.id, OriginalFilename(remote[c.id]))

\* the bytes the file of a call must hold: those of the address, with the
\* width parameter for a thumbnail
ExpectedBytes(c) ==
    Body(IF c.variant = "thumb" THEN thumb(remote[c.id]) ELSE remote[c.id])

\* C8: a call that finds a file in its id directory when it is made sends no
\* probe and no download and creates and writes nothing; it returns Ok with
\* the URL every other call returned for that directory, the one made of the
\* variant, the id and the stored file name.  So a worker's second call in a
\* row for the same id and variant sends no request and returns the URL of
\* the first.
C8_HitIsSilent ==
    \A w \in Workers :
        LET c == wk[w]
        IN /\ c.held =>
                /\ c.pc \in {"lookup", "url", "returned"}
                /\ c.requests = <<>>
                /\ ~c.wrote
                /\ c.pc = "returned" =>
                      /\ c.result = Ok(ExpectedUrl(c))
                      /\ returned[DirOf(c)] = {c.result.url}
           /\ (c.pc = "returned" /\ last[w].pc = "returned"
                 /\ DirOf(last[w]) = DirOf(c) /\ last[w].result.state = "ok") =>
                /\ c.requests = <<>>
                /\ c.result = last[w].result

\* C8 witness: a worker's first call probed, downloaded and wrote the file;
\* its second call for the same id and variant found it and returned the same
\* URL with no request.
C8_Witness ==
    \E w \in Workers :
        /\ wk[w].pc = "returned"
        /\ wk[w].held
        /\ wk[w].requests = <<>>
        /\ last[w].pc = "returned"
        /\ DirOf(last[w]) = DirOf(wk[w])
        /\ Len(last[w].requests) = 2
        /\ last[w].wrote
        /\ wk[w].result.state = "ok"
        /\ wk[w].result = last[w].result

\* C9: two workers in calls for the same id and variant, the service
\* redirecting the id to one address: neither call fails, however their steps
\* interleave; once both have returned they have returned the same URL and
\* the id directory holds exactly one file, under the decoded name, with all
\* the bytes of the download.
C9_RaceSurvivable ==
    \A a \in Workers : \A b \in Workers \ {a} :
        LET ca == wk[a]
            cb == wk[b]
        IN (ca.pc # "idle" /\ cb.pc # "idle" /\ DirOf(ca) = DirOf(cb)
              /\ remote[ca.id] # NoLocation) =>
            /\ ca.result.state # "err"
            /\ (ca.pc = "returned" /\ cb.pc = "returned") =>
                  /\ ca.result = cb.result
                  /\ ca.result = Ok(ExpectedUrl(ca))
                  /\ DOMAIN cache[DirOf(ca)] = {OriginalFilename(remote[ca.id])}
                  /\ cache[DirOf(ca)][OriginalFilename(remote[ca.id])]
                        = ExpectedBytes(ca)

\* C9 witness: both workers missed, probed, downloaded and wrote the
\* thumbnail of one id, whose address holds an escape, and both returned.
C9_Witness ==
    /\ \A w \in Workers :
          /\ wk[w].pc = "returned"
          /\ wk[w].variant = "thumb"
          /\ wk[w].id = IdNames[1]
          /\ Len(wk[w].requests) = 2
          /\ wk[w].wrote
          /\ last[w].pc = "idle"
    /\ "%20" \in Range(remote[IdNames[1]])

\* the one request of a call that missed and got no Location header
ProbeOnly(c) == <<Request("HEAD", attachment_id_to_url(c.id))>>

\* C12: a call that misses and whose probe is answered without a Location
\* header returns an error after that one probe: it sends no download, it does
\* not probe again, and the id directory holds no file afterwards; so the
\* worker's next call for the same id and variant misses and probes again.
C12_NoLocationIsFatal ==
    \A w \in Workers :
        LET c == wk[w]
        IN /\ (c.pc # "idle" /\ remote[c.id] = NoLocation) =>
                /\ c.pc \in {"lookup", "probe", "returned"}
                /\ ~c.held
                /\ DOMAIN cache[DirOf(c)] = {}
                /\ c.pc = "returned" =>
                      /\ c.result = Err("expected redirect")
                      /\ c.requests = ProbeOnly(c)
           /\ (c.pc = "returned" /\ c.result.state = "err") =>
                /\ remote[c.id] = NoLocation
                /\ c.requests = ProbeOnly(c)

\* C12 witness: a worker's call failed after its single probe, and its next
\* call for the same id and variant missed, probed once and failed again.
C12_Witness ==
    \E w \in Workers :
        /\ wk[w].pc = "returned"
        /\ wk[w].result = Err("expected redirect")
        /\ wk[w].requests = ProbeOnly(wk[w])
        /\ last[w].pc = "returned"
        /\ DirOf(last[w]) = DirOf(wk[w])
        /\ last[w].result = Err("expected redirect")
        /\ last[w].requests = ProbeOnly(last[w])
        /\ DOMAIN cache[DirOf(wk[w])] = {}

\* the workers in a call, not yet returned, for an id directory
Resolving(dir) == {w \in Workers : wk[w].pc \notin {"idle", "returned"} /\ DirOf(wk[w]) = dir}

\* C13: whenever no call is under way for it, an id directory the cache has
\* made holds exactly one file, named after the decoded last segment of the
\* address the service redirects the id to.
C13_OneFilePerDirectory ==
    \A dir \in DOMAIN cache :
        Resolving(dir) = {} =>
            /\ Cardinality(DOMAIN cache[dir]) = 1
            /\ remote[dir[2]] # NoLocation
            /\ DOMAIN cache[dir] = {OriginalFilename(remote[dir[2]])}

\* C18: a call that misses sends first the probe, a HEAD of the canonical
\* address of the id with no query parameter, and then the download: for a
\* thumbnail a GET of the redirect target followed by "?width=675", for the
\* full variant a GET of the redirect target as it is.  The file is created
\* only after both, under the decoded last segment of the redirect target
\* without the parameter.
C18_ProbeThenSizedDownload ==
    \A w \in Workers :
        LET c == wk[w]
            target == remote[c.id]
        IN /\ Len(c.requests) <= 2
           /\ Len(c.requests) >= 1 =>
                c.requests[1] =
                    Request("HEAD", <<"https://cohost.org/rc/attachment-redirect/", c.id>>)
           /\ Len(c.requests) = 2 =>
                /\ c.variant = "thumb" =>
                      c.requests[2] = Request("GET", target \o <<"?width=675">>)
                /\ c.variant = "full" => c.requests[2] = Request("GET", target)
           /\ c.pc \in {"create", "write"} => Len(c.requests) = 2
           /\ (Len(c.requests) = 2 /\ c.pc \in {"write", "url", "returned"}) =>
                /\ c.filename = Decode(AfterLastSlash(target))
                /\ "?width=675" \notin Range(c.filename)
                /\ c.filename \in DOMAIN cache[DirOf(c)]

\* C18 witness: a thumbnail call has probed, downloaded and written the file;
\* the redirect target holds an escape, so the stored name differs from its
\* last segment.
C18_Witness ==
    \E w \in Workers :
        /\ wk[w].pc = "returned"
        /\ wk[w].variant = "thumb"
        /\ Len(wk[w].requests) = 2
        /\ wk[w].requests[2].url = remote[wk[w].id] \o <<"?width=675">>
        /\ wk[w].filename # AfterLastSlash(remote[wk[w].id])
        /\ wk[w].result.state = "ok"

(* ------------------- claims: the span queue of the loop --------------- *)
\* s is what is left of t after some of its first elements are removed
IsSuffix(s, t) == \E k \in 0..Len(t) : s = SubSeq(t, k + 1, Len(t))

\* the places of the output that hold the AST of the k-th span of the input
AstPlaces(out, k) == {p \in DOMAIN out : out[p].piece = "ast" /\ out[p].ast = k}

AstsQueued(q) == {q[k].ast : k \in DOMAIN q}

\* the queue is what is left of the sorted spans; no span still queued has
\* been written, and no span has been written twice
QueueConsumedOnce ==
    mpc \in {"loop", "ok", "err", "panic"} =>
        /\ IsSuffix(spans, SortByKey(spans_in))
        /\ \A k \in DOMAIN spans_in :
              /\ Cardinality(AstPlaces(output, k)) <= 1
              /\ k \in AstsQueued(spans) => AstPlaces(output, k) = {}

\* a turn of the loop: the span at the front when the block is dispatched
\* ends after the block; spans leave the queue at the front only; an AST
\* written in this turn is that of the front span, which leaves the queue
QueueStep ==
    (mpc = "loop" /\ visits' # visits) =>
        LET v == visits'[Len(visits')]
        IN /\ v.i = m_i
           /\ v.first # NoSpan => v.first.end > v.i
           /\ IsSuffix(spans', spans)
           /\ \A p \in (DOMAIN output') \ (DOMAIN output) :
                 output'[p].piece = "ast" =>
                    /\ v.arm = "consume"
                    /\ output'[p].ast = v.first.ast
                    /\ v.first.ast \in AstsQueued(spans)
                    /\ v.first.ast \notin AstsQueued(spans')

\* C17: when block i is dispatched the front of the span queue, if any, has
\* end > i; spans are removed from the front of the sorted queue only and
\* never put back; a removed span is never compiled afterwards, and the AST of
\* a span is written at most once in the post.
C17_SpanQueueMonotonic == [][QueueStep /\ QueueConsumedOnce /\ QueueConsumedOnce']_vars

\* C17 witness: of two spans one was written at its last block and the other,
\* passed by the loop, was discarded unwritten; the loop went on to the end.
C17_Witness ==
    /\ mpc = "ok"
    /\ Len(spans_in) = 2
    /\ spans = <<>>
    /\ \E k \in DOMAIN spans_in :
          /\ Cardinality(AstPlaces(output, k)) = 1
          /\ \E j \in DOMAIN spans_in : j # k /\ AstPlaces(output, j) = {}
    /\ \E n \in DOMAIN visits : visits[n].arm = "consume" /\ visits[n].i < Len(blocks) - 1

(* --------------- claims: blocks the converter does not know ----------- *)
\* the number of Image attachments a block holds: one for an Attachment block
\* with an image, those of the Attachment children for an AttachmentRow
RECURSIVE ImagesOfRow(_)
ImagesOfRow(row) ==
    IF row = <<>> THEN 0
    ELSE (IF Head(row).kind = "Attachment" /\ Head(row).attachment = "Image" THEN 1 ELSE 0)
            + ImagesOfRow(Tail(row))

ImagesOf(block) ==
    CASE block.kind = "Attachment" -> IF block.attachment = "Image" THEN 1 ELSE 0
      [] block.kind = "AttachmentRow" -> ImagesOfRow(block.attachments)
      [] OTHER -> 0

\* what the output holds for block i, in order
PiecesAt(i) ==
    LET at == {p \in DOMAIN output : output[p].at = i}
        F[n \in 0..Len(output)] ==
            IF n = 0 THEN <<>>
            ELSE IF n \in at THEN Append(F[n - 1], output[n].piece) ELSE F[n - 1]
    IN F[Len(output)]

\* C15: an Unknown block, an Unknown attachment and a child of an
\* AttachmentRow that is no Attachment write no fragment and make no turn of
\* the loop fail: a turn over such a block writes one image per Image
\* attachment of the block and then the separator, nothing else, and a turn
\* over a block with no image can fail in the write of the separator only,
\* having written nothing; the loop goes on with the next block, and a
\* conversion that ends well has taken every block in order.
C15_UnknownShapesAreSkipped ==
    /\ \A n \in DOMAIN visits :
          LET v == visits[n]
              block == blocks[v.i + 1]
          IN (v.arm = "native" /\ block.kind \in {"Unknown", "Attachment", "AttachmentRow"}) =>
                /\ ~v.failed =>
                      /\ PiecesAt(v.i) = [k \in 1..ImagesOf(block) |-> "img"] \o <<"\n\n">>
                      /\ IF n < Len(visits) THEN visits[n + 1].i = v.i + 1
                         ELSE m_i = v.i + 1 /\ mpc \in {"loop", "ok"}
                /\ (v.failed /\ ImagesOf(block) = 0) => PiecesAt(v.i) = <<>>
                /\ v.failed => Len(PiecesAt(v.i)) < ImagesOf(block) + 1
    /\ mpc = "ok" =>
          /\ Len(visits) = Len(blocks)
          /\ \A n \in DOMAIN visits : visits[n].i = n - 1 /\ ~visits[n].failed

\* C15 witness: a row whose first child is a Markdown block and whose second
\* is an image, then an Unknown attachment: the image of the row is written,
\* the rest writes separators only, and the conversion ends well.
C15_Witness ==
    /\ mpc = "ok"
    /\ spans_in = <<>>
    /\ blocks = <<AttachmentRowBlock(<<MarkdownBlock, AttachmentBlock("Image")>>),
                  AttachmentBlock("Unknown")>>
    /\ PiecesAt(0) = <<"img", "\n\n">>
    /\ PiecesAt(1) = <<"\n\n">>

(* ------------------- claims: the share tree of a unit ----------------- *)
\* the posts a unit has called convert_single_chost on, in call order
PostsConverted(u) == [k \in DOMAIN calls[u] |-> calls[u][k].post]

\* C20: from the parse on, before any conversion, the share tree is held
\* apart from the post record and the record's own share tree is empty, so the
\* top-level post is converted with an empty share tree.  The calls of a unit
\* are the members of the moved share tree in order, one call each with no
\* references of its own, then the top-level post: nothing else is converted.
C20_ShareTreeMovedOut ==
    \A u \in Units :
        LET parsed == dir_entries[u]
            n == Len(parsed.shareTree)
        IN /\ post[u] = NoPost => calls[u] = <<>> /\ shared_posts[u] = <<>>
           /\ post[u] # NoPost =>
                /\ post[u].shareTree = <<>>
                /\ post[u].postId = parsed.postId
                /\ shared_posts[u] = parsed.shareTree
                /\ PostsConverted(u) =
                      SubSeq(parsed.shareTree \o <<parsed.postId>>, 1, Len(calls[u]))
                /\ \A k \in DOMAIN calls[u] : k <= n => calls[u][k].references = <<>>
                /\ done[u] <= n
                /\ upc[u] = "ok" => Len(calls[u]) = n + 1

\* C20 witness: a post with two shared posts; the record converted last has
\* an empty share tree, and the three calls are the two members and the post.
C20_Witness ==
    \E u \in Units :
        /\ upc[u] = "ok"
        /\ Len(dir_entries[u].shareTree) = 2
        /\ post[u].shareTree = <<>>
        /\ shared_posts[u] = dir_entries[u].shareTree
        /\ PostsConverted(u) = dir_entries[u].shareTree \o <<post[u].postId>>

(* ---------------- claims: a fatal error within a unit ----------------- *)
\* the calls of a unit that returned an error
FailedCalls(u) == {k \in DOMAIN calls[u] : calls[u][k].outcome # "ok"}

\* C19: the first fatal error ends the unit at once.  A failed call is the
\* last call of the unit and the unit returns an error; after a failed
\* share-tree member no later member is converted and the top-level
\* conversion never starts, so its file is never created; a failed turn of
\* the loop over the blocks is its last turn, and nothing of a later block is
\* written; a unit returns Ok only with every one of its files complete.
C19_FirstErrorAborts ==
    \A u \in Units :
        LET id == dir_entries[u].postId
            tree == dir_entries[u].shareTree
            n == Len(tree)
        IN /\ \A k \in FailedCalls(u) : k = Len(calls[u]) /\ upc[u] = "err"
           /\ (\E k \in FailedCalls(u) : k <= n) =>
                /\ mpc = "start"
                /\ visits = <<>>
                /\ TopFilename(id) \notin DOMAIN out_files
                /\ done[u] = Len(calls[u]) - 1
           /\ mpc # "start" => post[u] # NoPost /\ done[u] = n /\ FailedCalls(u) \subseteq {n + 1}
           /\ \A v \in DOMAIN visits :
                visits[v].failed =>
                    /\ v = Len(visits)
                    /\ mpc = "err"
                    /\ m_i = visits[v].i
                    /\ \A p \in DOMAIN output : output[p].at <= visits[v].i
           /\ (mpc = "err" /\ upc[u] \in {"ok", "err"}) => upc[u] = "err"
           /\ (upc[u] = "ok" /\ post[u] # NoPost) =>
                /\ mpc = "ok"
                /\ m_i = Len(blocks)
                /\ TopFilename(id) \in DOMAIN out_files
                /\ \A p \in FilesOf(id) : out_files[p].complete
                /\ \A k \in 1..n : SharedFilename(id, tree[k]) \in DOMAIN out_files

\* C19 witness: the shared posts were converted, the top-level conversion
\* failed in the first of its blocks, an image that could not be cached, and
\* the unit returned the error with the later blocks untouched.
C19_Witness ==
    \E u \in Units :
        /\ upc[u] = "err"
        /\ Len(dir_entries[u].shareTree) >= 1
        /\ done[u] = Len(dir_entries[u].shareTree)
        /\ calls[u][Len(calls[u])].outcome = "body_err"
        /\ mpc = "err"
        /\ Len(blocks) >= 2
        /\ blocks[1] = AttachmentBlock("Image")
        /\ m_i = 0
        /\ Len(visits) = 1
        /\ visits[1].failed
        /\ \A p \in DOMAIN output : output[p].at < 0

(* ------------------------- claims: process_ast ------------------------ *)
\* the names of the attributes an Element must get: those of its properties
\* that have a rule, a false boolean left out
NamesKept(tagName, properties) ==
    {n \in DOMAIN properties :
        /\ <<tagName, n>> \in ConvertibleProps
        /\ properties[n] # IdlBool(FALSE)}

\* a turn of the loop over an Element: the attributes of the new node are
\* those any enumeration of its properties gives, in ascending order of name,
\* one for every property kept and none for the others
SameInAnyOrder ==
    (apc = "walk" /\ html' # html /\ Head(ast_queue).node.type = "Element") =>
        LET node == Head(ast_queue).node
            attrs == html'[NewId(html)].attrs
        IN /\ \A order \in Enumerations(node.properties) :
                 attrs = ContentAttributes(node.tagName,
                                           SortByName(Collected(node.properties, order)))
           /\ \A a \in DOMAIN attrs : \A b \in DOMAIN attrs :
                 a < b => NameRank(attrs[a].name) < NameRank(attrs[b].name)
           /\ {attrs[a].name : a \in DOMAIN attrs}
                 = NamesKept(node.tagName, node.properties)

\* C14: whatever order the properties of an Element are enumerated in,
\* process_ast gives the element the same attribute sequence: sorted by
\* property name, the properties without a conversion dropped.
C14_PropertyOrderIrrelevant == [][SameInAnyOrder]_vars

\* C14 witness: an element with the properties start, reversed and zzz has
\* been compiled to the attributes reversed and start, in that order.
C14_Witness ==
    /\ apc = "done"
    /\ \E id \in DOMAIN html :
          /\ html[id].name = "ol"
          /\ html[id].attrs = <<Attr("reversed", <<>>), Attr("start", <<"2">>)>>
          /\ html[id].children # <<>>

\* the depth-first build of an AST: the trees a node gives its parent, a Root
\* giving those of its children
RECURSIVE DepthFirst(_)
RECURSIVE DepthFirstAll(_)
DepthFirst(node) ==
    CASE node.type = "Root" -> DepthFirstAll(node.children)
      [] node.type = "Element" ->
            <<[name |-> node.tagName,
               attrs |-> ContentAttributes(node.tagName,
                            SortByName(Collected(node.properties,
                                CHOOSE order \in Enumerations(node.properties) : TRUE))),
               kids |-> DepthFirstAll(node.children)]>>
      [] OTHER -> <<[name |-> "#text", attrs |-> TextOf(node.value).attrs, kids |-> <<>>]>>

DepthFirstAll(children) ==
    IF children = <<>> THEN <<>>
    ELSE DepthFirst(Head(children)) \o DepthFirstAll(Tail(children))

\* C16: the fragment process_ast returns is the tree a depth-first build of
\* the AST gives: every node under its parent, the children of a parent in
\* document order, Root nodes below the top level included.
C16_BreadthFirstIsDepthFirst ==
    apc = "done" => TreeOf(html, 0).kids = DepthFirst(ast_in)

(* -------------------- claims: the attachment pass --------------------- *)
\* the attribute of an element the pass looks at: src of img, href of a
Looked(element, p) ==
    \/ element.name = "img" /\ element.attrs[p].name = "src"
    \/ element.name = "a" /\ element.attrs[p].name = "href"

\* the value is the attachment-redirect URL of an id
IsRedirectUrl(value) ==
    /\ Len(value) = 2
    /\ value[1] = "https://cohost.org/rc/attachment-redirect/"
    /\ value[2] \in {IdNames[1], IdNames[2]}

\* the ids of the attachment-redirect URLs the first n elements hold in a
\* looked-at attribute, in document order
RECURSIVE IdsIn(_, _)
IdsIn(elements, n) ==
    IF n = 0 THEN <<>>
    ELSE LET element == elements[n]
             hits == {p \in DOMAIN element.attrs :
                        Looked(element, p) /\ IsRedirectUrl(element.attrs[p].value)}
         IN IdsIn(elements, n - 1)
              \o (IF hits = {} THEN <<>> ELSE <<element.attrs[Min(hits)].value[2]>>)

\* C11: the pass changes the value of an attribute exactly when it is the src
\* of an img or the href of an a and holds the attachment-redirect URL of an
\* id; the value becomes the URL the cache returns for the full image of that
\* id, and a data-cohost-src or data-cohost-href attribute with the old value
\* is added.  Every other value, and every attribute of another element, is
\* left as it was, and the cache is called for the rewritten values only.
C11_OnlyAttachmentUrlsRewritten ==
    /\ Len(frag) = Len(frag_in)
    /\ cache_calls = IdsIn(frag_in, IF fpc = "err" THEN f_i + 1 ELSE f_i)
    /\ \A k \in DOMAIN frag_in :
          LET old == frag_in[k]
              new == frag[k]
              n == Len(old.attrs)
              added == SubSeq(new.attrs, n + 1, Len(new.attrs))
              rewritten == {p \in 1..n : new.attrs[p].value # old.attrs[p].value}
              lazy == IF old.name = "img" THEN <<Attr("loading", <<"lazy">>)>> ELSE <<>>
          IN /\ new.name = old.name
             /\ Len(new.attrs) >= n
             /\ \A p \in 1..n : new.attrs[p].name = old.attrs[p].name
             /\ k > f_i => new = old
             /\ k <= f_i =>
                   /\ rewritten = {p \in 1..n : Looked(old, p)
                                                   /\ IsRedirectUrl(old.attrs[p].value)}
                   /\ \A p \in rewritten :
                         /\ new.attrs[p].value =
                               <<"attachments/", old.attrs[p].value[2], "/", "chunk.png">>
                         /\ added = <<Attr(IF old.name = "img" THEN "data-cohost-src"
                                           ELSE "data-cohost-href",
                                           old.attrs[p].value)>> \o lazy
                   /\ rewritten = {} => added = lazy
                   /\ old.name \notin {"img", "a"} => new = old

\* C11 witness: an img whose src is an attachment URL, after an alt, and an a
\* whose href is another URL: the pass has rewritten the first, with one cache
\* call, and left the second alone.
C11_Witness ==
    /\ fpc = "mention"
    /\ frag_in = <<NodeOf("img", <<Attr("alt", <<"text">>),
                                  Attr("src", attachment_id_to_url(IdNames[2]))>>, <<>>),
                   NodeOf("a", <<Attr("href", <<"https://example.com/", IdNames[1]>>)>>,
                          <<>>)>>
    /\ cache_calls = <<IdNames[2]>>
    /\ frag[1].attrs[2].value # frag_in[1].attrs[2].value
    /\ frag[2] = frag_in[2]

(* ------------- claims: spans and the blocks they stand for ------------ *)
\* block index i lies in the half-open interval of a span
Covers(span, i) == span.start <= i /\ i < span.end

\* the spans of the input whose AST the output holds
Emitted == {k \in DOMAIN spans_in : AstPlaces(output, k) # {}}

\* the block indices the loop dispatched on the block's own variant
Native == {visits[n].i : n \in {v \in DOMAIN visits : visits[v].arm = "native"}}

\* C21: the AST of a span is written in place of block i only when i lies in
\* the span's interval [start, end), whatever the spans of the input are.
C21_AstOnlyInsideItsSpan ==
    \A n \in DOMAIN visits :
        visits[n].arm = "consume" => Covers(visits[n].first, visits[n].i)

\* C22: when the conversion ends well, every block was dispatched on its own
\* variant or lies in a span whose AST was written.
C22_NoBlockLost ==
    mpc = "ok" =>
        \A i \in 0..(Len(blocks) - 1) :
            \/ i \in Native
            \/ \E k \in Emitted : Covers(spans_in[k], i)

\* C23: no block index lies in two spans whose ASTs were written, and none
\* that was dispatched on its own variant lies in a span whose AST was written.
C23_NoBlockTwice ==
    \A i \in 0..(Len(blocks) - 1) :
        LET over == {k \in Emitted : Covers(spans_in[k], i)}
        IN /\ Cardinality(over) <= 1
           /\ i \in Native => over = {}

\* C24: whenever the match evaluates `*end - 1` the front span has end >= 1:
\* no turn of the loop takes the arm in which the subtraction overflows, in
\* either build, spans with end = 0 having left the queue before the match.
C24_NoUnderflow ==
    /\ mpc # "panic"
    /\ \A n \in DOMAIN visits :
          /\ visits[n].arm # "panic"
          /\ visits[n].first # NoSpan => visits[n].first.end >= 1

\* C24 witness: the input holds a span with end = 0 ahead of another span;
\* the loop has dropped the first and matched the second without overflow.
C24_Witness ==
    /\ mpc = "ok"
    /\ Len(spans_in) = 2
    /\ \E k \in DOMAIN spans_in : spans_in[k].end = 0
    /\ SortByKey(spans_in)[1].end = 0
    /\ visits # <<>>
    /\ visits[1].first # NoSpan
    /\ visits[1].first.end >= 1
    /\ visits[1].arm \in {"consume", "skip"}

=============================================================================
